---- MODULE Spec2Model ----
(***************************************************************************)
(* A model of the command-execution and event pipeline of the aws-cli      *)
(* terminal dashboard (Rust).                                              *)
(*                                                                         *)
(*   SpecMonitor   wait_for_output_with_timeout on one child process       *)
(*                 (src/src/action_handler.rs, the same loop as in         *)
(*                 src/src/thread_manager.rs and src/src/aws_api.rs).      *)
(*   SpecReader    open_log_channel alone: a child writing byte by byte,   *)
(*                 the two reader threads and the supervising thread.      *)
(*   SpecStream    one run of get_logs or login over open_log_channel,     *)
(*                 with the store consuming the events                     *)
(*                 (src/src/action_handler.rs,                             *)
(*                 src/src/widget_data_store.rs, src/src/widgets.rs).      *)
(*   SpecRegistry  AwsAPI::get_logs and AwsAPI::login scheduling workers   *)
(*                 through ThreadManager (src/src/aws_api.rs,              *)
(*                 src/src/thread_manager.rs).                             *)
(*   SpecTruncate  TopTruncator::truncate on one log buffer                *)
(*                 (src/src/truncator.rs).                                 *)
(*   SpecStore     WidgetDataStore::start consuming the events of any      *)
(*                 producers, with its truncator, while the UI thread      *)
(*                 renders the snapshots (src/src/widget_data_store.rs,    *)
(*                 src/src/widgets.rs).                                    *)
(*   SpecDispatch  action_handler::start handling the TUIActions one by    *)
(*                 one and spawning their commands                         *)
(*                 (src/src/action_handler.rs).                            *)
(*   SpecApp       App::run_app receiving the snapshots of the store and   *)
(*                 sending the start intents of the widgets                *)
(*                 (src/src/app.rs, src/src/widget_data_store.rs).         *)
(*   SpecKeys      the app reading keys and the store handling the events  *)
(*                 the keys send (src/src/app.rs, src/src/widgets.rs).     *)
(*   SpecSystem    keys, store, app and dispatcher together, from the      *)
(*                 first key press to the commands spawned for it.         *)
(*   SpecWorker    SpecStream without the store.                           *)
(*   SpecDispatchFair, SpecWorkerFair: SpecDispatch and SpecWorker with    *)
(*                 weak fairness of the steps of the program's threads.    *)
(*                                                                         *)
(* Text is a sequence of one-character strings; a message the program      *)
(* builds from literals is the sequence of its parts.                      *)
(***************************************************************************)
EXTENDS Integers, Sequences, FiniteSets, TLC

(***************************************************************************)
(* Bounds of the model and constants of the program.                       *)
(***************************************************************************)
\* Clock resolution of the model: ticks per second of elapsed time.
TicksPerSec == 2
\* Exit codes a child may return: 0..MaxExitCode.
MaxExitCode == 2
\* SpecReader: the child writes at most this many bytes to stdout.
MaxBytes == 3
\* SpecStream: the child performs at most this many line writes.
MaxOps == 3
\* SpecRegistry: at most this many calls of AwsAPI::get_logs and login.
MaxCalls == 3
\* SpecTruncate: buffers of 0..MaxLen entries, ceilings 0..MaxCeiling, and
\* at most MaxTruncates calls of truncate on one buffer.
MaxLen == 5
MaxCeiling == 4
MaxTruncates == 2
\* SpecStore: at most this many events are sent to the store.
MaxEvents == 2
\* SpecDispatch: at most this many intents are sent to the dispatcher.
MaxIntents == 2
\* SpecDispatch: the log-stream threads call get_logs again while fewer
\* than this many commands were spawned.
MaxRuns == 2
\* SpecKeys, SpecSystem: at most this many key presses are read.
MaxKeys == 2
\* SpecMonitor: the number of bytes a pipe holds before a write blocks
\* (65536 on Linux), scaled down.
PipeCapacity == 4
\* i16::MAX, the largest value of `from_to_top: i16`.
I16Max == 32767
\* `now.elapsed().as_secs() > 1`: whole seconds that must be exceeded
\* before the VPN warning is sent.
GraceSecs == 1
\* `now + Duration::from_secs(60) < Instant::now()`: the hard ceiling.
CeilingSecs == 60
\* The clock of the model stops this many ticks after the run started.
MaxClock == (CeilingSecs + 2) * TicksPerSec

VARIABLES
    events,       \* every TUIEvent sent on event_tx, in send order
    \* --- wait_for_output_with_timeout ---
    mon_pc,       \* "idle" | "loop" | "returned" | "panicked"
    elapsed,      \* ticks since `now = Instant::now()`
    send_error,   \* the local `send_error`
    result,       \* the local `result`: None, Ok(text) or Err(text)
    mon_child,    \* the child: [state, status, stdout, prompt]
    warn_at,      \* history: the value of `elapsed` at each VPN warning sent
    \* --- the child of a streamed task ---
    child,        \* [state, status, plan]: plan is the status it exits with
    script,       \* the writes the child has still to do: [fd, bytes]
    written,      \* history: [out, err], all bytes written to each stream
    stdout_pipe,  \* [buf, rd_open]: bytes in flight, read end still open
    stderr_pipe,
    \* --- open_log_channel ---
    stdout_thread,       \* "idle" | "run" | "done"
    stderr_thread,
    log_channel_thread,  \* "idle" | "recv" | "join" | "finished"
    read_stdout_rx,      \* lines sent on read_stdout_tx, not yet received
    read_stderr_rx,
    err_rx,              \* messages sent on err_tx, not yet received
    sent_stdout,         \* history: every line sent on read_stdout_tx
    sent_stderr,         \* history: every line sent on read_stderr_tx
    \* --- get_logs / login ---
    task,         \* "none" | "logs" | "login"
    w_pc,         \* "idle" | "check" | "stderr" | "stdout" | "wait" | "done" |
                  \* "reported"
    has_error,    \* the local `has_error` of get_logs
    logs_result,  \* what get_logs returned
    \* --- WidgetDataStore ---
    store,        \* the Store
    store_pos,    \* number of events the store has received
    store_tx,     \* every Store snapshot sent on store_tx
    action_tx,    \* every TUIAction sent on action_tx
    \* --- ThreadManager and the children AwsAPI spawns for it ---
    threads,      \* task id -> [present, child, finished]
    procs,        \* task id -> the child processes spawned for the id
    calls,        \* number of AwsAPI::get_logs / login calls made
    \* --- the truncator of the store and the renderer of the snapshots ---
    truncator,    \* [kind, from_to_top, overflow_checks]
    trunc_pc,     \* "ready" | "panicked"
    trunc_hist,   \* history: the log buffer at start and after each truncate
    ui_lock,      \* the widget whose mutex the renderer holds, or "none"
    \* --- the dispatcher: action_handler::start ---
    disp_pc,      \* "idle" | "recv" | the command the loop is blocked on
    disp_pos,     \* number of TUIActions the dispatcher has received
    cmds,         \* every quick command spawned: [kind, env, by, state]
    active_env,   \* the environment of the last ChangeEnv that succeeded
    disp_hist,    \* per intent read: the outcomes of its commands and the
                  \* events sent while handling it
    \* --- App::run_app: the receiver of the snapshots ---
    app_pc,       \* "idle" | "run" | "panicked"
    app_pos,      \* number of snapshots received from store_rx
    thread_mngt,  \* ThreadManage: [logs, pods, tail], the started flags
    keys          \* number of key presses read by handle_user_input

monVars == <<mon_pc, elapsed, send_error, result, mon_child, warn_at>>
childVars == <<child, script, written, stdout_pipe, stderr_pipe>>
chanVars == <<stdout_thread, stderr_thread, log_channel_thread,
              read_stdout_rx, read_stderr_rx, err_rx, sent_stdout, sent_stderr>>
workerVars == <<task, w_pc, has_error, logs_result>>
storeVars == <<store, store_pos, store_tx, action_tx>>
regVars == <<threads, procs, calls>>
truncVars == <<truncator, trunc_pc, trunc_hist, ui_lock>>
dispVars == <<disp_pc, disp_pos, cmds, active_env, disp_hist>>
appVars == <<app_pc, app_pos, thread_mngt, keys>>
vars == <<events, monVars, childVars, chanVars, workerVars, storeVars,
          regVars, truncVars, dispVars, appVars>>

(***************************************************************************)
(* Values.                                                                 *)
(***************************************************************************)
None == [kind |-> "None", val |-> <<>>]
Ok(v) == [kind |-> "Ok", val |-> v]
Err(e) == [kind |-> "Err", val |-> e]

\* TUIEvent: type is the variant, kind the TUIError variant of an Error,
\* text the payload.
Event(type, kind, text) == [type |-> type, kind |-> kind, text |-> text]
ErrorVPN == Event("Error", "VPN", <<>>)
ErrorAPI(text) == Event("Error", "API", text)

\* std::process::ExitStatus: a normal exit with a code, or death by signal
\* (then code() is None).
ExitStatuses ==
    {[normal |-> TRUE, code |-> c] : c \in 0..MaxExitCode}
        \cup {[normal |-> FALSE, code |-> 9]}
\* ExitStatus::success
Success(status) == status.normal /\ status.code = 0

\* What a quick command may have printed on stdout.
Outputs == {<<>>, <<"p", "o", "d", "\n">>}

(***************************************************************************)
(* wait_for_output_with_timeout                                            *)
(***************************************************************************)
\* Duration::as_secs: whole seconds, rounded down.
AsSecs(ticks) == ticks \div TicksPerSec

\* The Ok(Some(status)) branch: the loop's result for an exited child.
ExitResult_IgnoresStatus(status, stdout) == Ok(stdout)
ExitResult(status, stdout) ==
    IF Success(status)
    THEN Ok(stdout)
    ELSE Err(<<"Exit code ", ToString(status.code)>>)

\* `status.code().unwrap()` panics for a child killed by a signal.
ExitPanics(status) == ~Success(status) /\ ~status.normal

\* `if now.elapsed().as_secs() > 1 { if send_error { ... } }`
ShouldWarn_NoGrace(ticks, flag) == flag
ShouldWarn(ticks, flag) == AsSecs(ticks) > GraceSecs /\ flag

\* `send_error = false` once the warning is sent.
SendErrorAfterWarn_Kept == TRUE
SendErrorAfterWarn == FALSE

\* `if now + Duration::from_secs(60) < Instant::now()`
TimedOut(ticks) == ticks > CeilingSecs * TicksPerSec

\* What the run does to the child when it gives up: `result =
\* Some(Err("timeout"))` and nothing else; the Child handle is dropped at
\* return, and dropping a std::process::Child neither kills nor reaps it.
ChildAfterTimeout(c) == c

\* What the child prints on stdout: one of Outputs, or more than the pipe
\* holds.
MonOutputs == Outputs \cup {[i \in 1..(PipeCapacity + 1) |-> "x"]}

\* The child has written all of its output.  Its stdout is a pipe
\* (Stdio::piped) that the loop does not read before try_wait has reported
\* the exit: a write beyond the capacity of the pipe blocks.
WritesComplete(c) == Len(c.stdout) <= PipeCapacity

\* Time passes while the loop sleeps or is descheduled.  A prompt child
\* exits as soon as its writes are complete, before any time has passed.
Tick ==
    /\ mon_pc = "loop"
    /\ elapsed < MaxClock
    /\ ~(/\ mon_child.prompt
         /\ mon_child.state = "running"
         /\ WritesComplete(mon_child))
    /\ elapsed' = elapsed + 1
    /\ UNCHANGED <<events, mon_pc, send_error, result, mon_child, warn_at>>
    /\ UNCHANGED <<childVars, chanVars, workerVars, storeVars>>
    /\ UNCHANGED <<regVars, truncVars, appVars, dispVars>>

\* The child process ends by itself, once its writes are complete; a
\* prompt child ends with status 0.  After the run has returned the pipe
\* is closed and the child no longer blocks on it.
MonChildExit ==
    /\ mon_pc \in {"loop", "returned"}
    /\ mon_child.state = "running"
    /\ mon_pc = "loop" => WritesComplete(mon_child)
    /\ \E st \in ExitStatuses :
          /\ mon_child.prompt => Success(st)
          /\ mon_child' = [mon_child EXCEPT !.state = "exited",
                                            !.status = st]
    /\ UNCHANGED <<events, mon_pc, elapsed, send_error, result, warn_at>>
    /\ UNCHANGED <<childVars, chanVars, workerVars, storeVars>>
    /\ UNCHANGED <<regVars, truncVars, appVars, dispVars>>

\* One iteration of `while result == None { match child.try_wait() ... }`.
\* Both clock reads of an iteration fall in the same tick.
wait_for_output_with_timeout ==
    /\ mon_pc = "loop"
    /\ IF mon_child.state = "exited"
       THEN \* Ok(Some(status))
            /\ IF ExitPanics(mon_child.status)
               THEN /\ mon_pc' = "panicked"
                    /\ result' = result
               ELSE /\ mon_pc' = "returned"
                    /\ result' = ExitResult(mon_child.status, mon_child.stdout)
            /\ UNCHANGED <<events, send_error, warn_at, mon_child>>
       ELSE \* Ok(None)
            /\ IF ShouldWarn(elapsed, send_error)
               THEN /\ send_error' = SendErrorAfterWarn
                    /\ events' = Append(events, ErrorVPN)
                    /\ warn_at' = Append(warn_at, elapsed)
               ELSE UNCHANGED <<events, send_error, warn_at>>
            /\ IF TimedOut(elapsed)
               THEN /\ result' = Err(<<"timeout">>)
                    /\ mon_pc' = "returned"
                    /\ mon_child' = ChildAfterTimeout(mon_child)
               ELSE UNCHANGED <<result, mon_pc, mon_child>>
    /\ UNCHANGED elapsed
    /\ UNCHANGED <<childVars, chanVars, workerVars, storeVars>>
    /\ UNCHANGED <<regVars, truncVars, appVars, dispVars>>

MonInit ==
    /\ mon_pc = "loop"
    /\ elapsed = 0
    /\ send_error = TRUE
    /\ result = None
    /\ \E out \in MonOutputs, prompt \in BOOLEAN :
          mon_child = [state |-> "running",
                       status |-> [normal |-> TRUE, code |-> 0],
                       stdout |-> out, prompt |-> prompt]
    /\ warn_at = <<>>

\* No quick command is running.
MonIdle ==
    /\ mon_pc = "idle"
    /\ elapsed = 0
    /\ send_error = TRUE
    /\ result = None
    /\ mon_child = [state |-> "none",
                    status |-> [normal |-> TRUE, code |-> 0],
                    stdout |-> <<>>, prompt |-> FALSE]
    /\ warn_at = <<>>

(***************************************************************************)
(* The child process of a streamed task and its two pipes.                 *)
(***************************************************************************)
\* The child writes the next chunk of its script.  Writing to a pipe whose
\* read end is closed kills it (SIGPIPE).
ChildWrite ==
    /\ child.state = "running"
    /\ script # <<>>
    /\ LET op == Head(script)
           pipe == IF op.fd = "out" THEN stdout_pipe ELSE stderr_pipe
       IN  IF pipe.rd_open
           THEN /\ script' = Tail(script)
                /\ IF op.fd = "out"
                   THEN /\ stdout_pipe' =
                            [stdout_pipe EXCEPT !.buf = @ \o op.bytes]
                        /\ written' = [written EXCEPT !.out = @ \o op.bytes]
                        /\ UNCHANGED stderr_pipe
                   ELSE /\ stderr_pipe' =
                            [stderr_pipe EXCEPT !.buf = @ \o op.bytes]
                        /\ written' = [written EXCEPT !.err = @ \o op.bytes]
                        /\ UNCHANGED stdout_pipe
                /\ UNCHANGED child
           ELSE /\ child' = [child EXCEPT
                                !.state = "exited",
                                !.status = [normal |-> FALSE, code |-> 13]]
                /\ UNCHANGED <<script, written, stdout_pipe, stderr_pipe>>
    /\ UNCHANGED <<events, monVars, chanVars, workerVars, storeVars>>
    /\ UNCHANGED <<regVars, truncVars, appVars, dispVars>>

\* The child has written everything and exits; its ends of the pipes close.
ChildExit ==
    /\ child.state = "running"
    /\ script = <<>>
    /\ child' = [child EXCEPT !.state = "exited", !.status = child.plan]
    /\ UNCHANGED <<script, written, stdout_pipe, stderr_pipe>>
    /\ UNCHANGED <<events, monVars, chanVars, workerVars, storeVars>>
    /\ UNCHANGED <<regVars, truncVars, appVars, dispVars>>

(***************************************************************************)
(* open_log_channel: stderr_thread, stdout_thread and the supervising      *)
(* log_channel_thread.                                                     *)
(***************************************************************************)
NewlineAt(buf) == {i \in 1..Len(buf) : buf[i] = "\n"}
MinOf(S) == CHOOSE i \in S : \A j \in S : i <= j

\* BufRead::read_line returns once the buffered bytes hold a newline or
\* the stream is at its end.
CanReadLine_NoEof(pipe) == NewlineAt(pipe.buf) # {}
CanReadLine(pipe) == NewlineAt(pipe.buf) # {} \/ child.state = "exited"

\* BufRead::read_line: the bytes up to and including the first newline, or
\* all that is left at the end of the stream.
ReadLine_DropsNewline(buf) ==
    IF NewlineAt(buf) # {}
    THEN LET i == MinOf(NewlineAt(buf))
         IN  [text |-> SubSeq(buf, 1, i - 1),
              rest |-> SubSeq(buf, i + 1, Len(buf))]
    ELSE [text |-> buf, rest |-> <<>>]
ReadLine(buf) ==
    IF NewlineAt(buf) # {}
    THEN LET i == MinOf(NewlineAt(buf))
         IN  [text |-> SubSeq(buf, 1, i),
              rest |-> SubSeq(buf, i + 1, Len(buf))]
    ELSE [text |-> buf, rest |-> <<>>]

\* `should_break` of the stderr reader after it has sent a line.
StderrBreakAfterLine == TRUE

\* One iteration of the loop of stderr_thread.
stderr_thread_step ==
    /\ stderr_thread = "run"
    /\ CanReadLine(stderr_pipe)
    /\ LET r == ReadLine(stderr_pipe.buf)
       IN  IF r.text # <<>>
           THEN /\ read_stderr_rx' = Append(read_stderr_rx, r.text)
                /\ sent_stderr' = Append(sent_stderr, r.text)
                /\ err_rx' = Append(err_rx, "stderr buf reader error")
                /\ IF StderrBreakAfterLine
                   THEN /\ stderr_thread' = "done"
                        /\ stderr_pipe' = [buf |-> r.rest, rd_open |-> FALSE]
                   ELSE /\ stderr_thread' = "run"
                        /\ stderr_pipe' = [stderr_pipe EXCEPT !.buf = r.rest]
           ELSE \* bytes_read == 0
                /\ err_rx' = Append(err_rx, "stderr buf reader EOF")
                /\ stderr_thread' = "done"
                /\ stderr_pipe' = [buf |-> r.rest, rd_open |-> FALSE]
                /\ UNCHANGED <<read_stderr_rx, sent_stderr>>
    /\ UNCHANGED <<stdout_thread, log_channel_thread, read_stdout_rx,
                   sent_stdout>>
    /\ UNCHANGED <<child, script, written, stdout_pipe>>
    /\ UNCHANGED <<events, monVars, workerVars, storeVars>>
    /\ UNCHANGED <<regVars, truncVars, appVars, dispVars>>

\* One iteration of the loop of stdout_thread.
stdout_thread_step ==
    /\ stdout_thread = "run"
    /\ CanReadLine(stdout_pipe)
    /\ LET r == ReadLine(stdout_pipe.buf)
       IN  IF r.text # <<>>
           THEN /\ read_stdout_rx' = Append(read_stdout_rx, r.text)
                /\ sent_stdout' = Append(sent_stdout, r.text)
                /\ stdout_pipe' = [stdout_pipe EXCEPT !.buf = r.rest]
                /\ UNCHANGED <<err_rx, stdout_thread>>
           ELSE \* bytes_read == 0
                /\ err_rx' = Append(err_rx, "stdout buf reader EOF")
                /\ stdout_thread' = "done"
                /\ stdout_pipe' = [buf |-> r.rest, rd_open |-> FALSE]
                /\ UNCHANGED <<read_stdout_rx, sent_stdout>>
    /\ UNCHANGED <<stderr_thread, log_channel_thread, read_stderr_rx,
                   sent_stderr>>
    /\ UNCHANGED <<child, script, written, stderr_pipe>>
    /\ UNCHANGED <<events, monVars, workerVars, storeVars>>
    /\ UNCHANGED <<regVars, truncVars, appVars, dispVars>>

\* `while !should_break { if let Ok(error) = err_rx.recv() { ... } }`
log_channel_thread_recv ==
    /\ log_channel_thread = "recv"
    /\ err_rx # <<>>
    /\ err_rx' = Tail(err_rx)
    /\ log_channel_thread' = "join"
    /\ UNCHANGED <<stdout_thread, stderr_thread, read_stdout_rx,
                   read_stderr_rx, sent_stdout, sent_stderr>>
    /\ UNCHANGED <<events, monVars, childVars, workerVars, storeVars>>
    /\ UNCHANGED <<regVars, truncVars, appVars, dispVars>>

\* `stdout_thread.join().unwrap(); stderr_thread.join().unwrap();` have
\* returned: each join blocks until its thread has ended.
Joined_NoWait(out, err) == TRUE
Joined(out, err) == out = "done" /\ err = "done"

\* The supervisor after its loop: the two joins, then its closure ends.
log_channel_thread_join ==
    /\ log_channel_thread = "join"
    /\ Joined(stdout_thread, stderr_thread)
    /\ log_channel_thread' = "finished"
    /\ UNCHANGED <<stdout_thread, stderr_thread, read_stdout_rx,
                   read_stderr_rx, err_rx, sent_stdout, sent_stderr>>
    /\ UNCHANGED <<events, monVars, childVars, workerVars, storeVars>>
    /\ UNCHANGED <<regVars, truncVars, appVars, dispVars>>

\* open_log_channel has just returned for a child about to run `ops`.
ChannelInit(ops, plan) ==
    /\ child = [state |-> "running",
                status |-> [normal |-> TRUE, code |-> 0],
                plan |-> plan]
    /\ script = ops
    /\ written = [out |-> <<>>, err |-> <<>>]
    /\ stdout_pipe = [buf |-> <<>>, rd_open |-> TRUE]
    /\ stderr_pipe = [buf |-> <<>>, rd_open |-> TRUE]
    /\ stdout_thread = "run"
    /\ stderr_thread = "run"
    /\ log_channel_thread = "recv"
    /\ read_stdout_rx = <<>>
    /\ read_stderr_rx = <<>>
    /\ err_rx = <<>>
    /\ sent_stdout = <<>>
    /\ sent_stderr = <<>>

\* No streamed task exists.
ChannelIdle ==
    /\ child = [state |-> "none",
                status |-> [normal |-> TRUE, code |-> 0],
                plan |-> [normal |-> TRUE, code |-> 0]]
    /\ script = <<>>
    /\ written = [out |-> <<>>, err |-> <<>>]
    /\ stdout_pipe = [buf |-> <<>>, rd_open |-> FALSE]
    /\ stderr_pipe = [buf |-> <<>>, rd_open |-> FALSE]
    /\ stdout_thread = "idle"
    /\ stderr_thread = "idle"
    /\ log_channel_thread = "idle"
    /\ read_stdout_rx = <<>>
    /\ read_stderr_rx = <<>>
    /\ err_rx = <<>>
    /\ sent_stdout = <<>>
    /\ sent_stderr = <<>>

WorkerIdle ==
    /\ task = "none"
    /\ w_pc = "idle"
    /\ has_error = FALSE
    /\ logs_result = None

StoreIdle ==
    /\ store = <<>>
    /\ store_pos = 0
    /\ store_tx = <<>>
    /\ action_tx = <<>>

(***************************************************************************)
(* get_logs and login: the worker loop over the two line channels.         *)
(***************************************************************************)
Some(v) == [kind |-> "Some", val |-> v]

AddLog(line) == Event("AddLog", "", line)
AddLoginLog(line) == Event("AddLoginLog", "", line)
DisplayLoginCode(code) == Event("DisplayLoginCode", "", code)
IsLoggedIn == Event("IsLoggedIn", "", <<>>)

\* The character class [A-Za-z].
Letters ==
    {"A", "B", "C", "D", "E", "F", "G", "H", "I", "J", "K", "L", "M",
     "N", "O", "P", "Q", "R", "S", "T", "U", "V", "W", "X", "Y", "Z",
     "a", "b", "c", "d", "e", "f", "g", "h", "i", "j", "k", "l", "m",
     "n", "o", "p", "q", "r", "s", "t", "u", "v", "w", "x", "y", "z"}

\* Positions at which [A-Za-z]{4}-[A-Za-z]{4} matches in `line`.
CodeMatches(line) ==
    {i \in 1..(Len(line) - 8) :
        /\ \A k \in 0..3 : line[i + k] \in Letters
        /\ line[i + 4] = "-"
        /\ \A k \in 5..8 : line[i + k] \in Letters}

\* re_code.captures(&line), group 0: the leftmost match.
ReCode(line) ==
    IF CodeMatches(line) = {}
    THEN None
    ELSE LET i == MinOf(CodeMatches(line)) IN Some(SubSeq(line, i, i + 8))

\* str::contains
Contains(line, pat) ==
    \E i \in 1..(Len(line) - Len(pat) + 1) :
        SubSeq(line, i, i + Len(pat) - 1) = pat

Successfully == <<"S", "u", "c", "c", "e", "s", "s", "f", "u", "l", "l", "y">>

\* The events check_login_status sends for one line.
check_login_status(line) ==
    (IF ReCode(line) # None
     THEN <<DisplayLoginCode(ReCode(line).val)>> ELSE <<>>)
    \o (IF Contains(line, Successfully) THEN <<IsLoggedIn>> ELSE <<>>)

\* login, per stdout line: add_login_logs, then check_login_status.
LoginLineEvents_StatusFirst(line) ==
    check_login_status(line) \o <<AddLoginLog(line)>>
LoginLineEvents(line) == <<AddLoginLog(line)>> \o check_login_status(line)

\* get_logs, per stdout line: add_logs.
LogsLineEvents(line) == <<AddLog(line)>>

\* `if !child.wait().unwrap().success() || has_error`
LogsResult(status, flag) ==
    IF ~Success(status) \/ flag
    THEN Err(<<"process experienced some errors">>)
    ELSE Ok(<<>>)

\* `while !thread_handle.is_finished()`: the loop condition.
worker_check ==
    /\ w_pc = "check"
    /\ w_pc' = IF log_channel_thread = "finished"
               THEN (IF task = "logs" THEN "wait" ELSE "done")
               ELSE "stderr"
    /\ UNCHANGED <<task, has_error, logs_result>>
    /\ UNCHANGED <<events, monVars, childVars, chanVars, storeVars>>
    /\ UNCHANGED <<regVars, truncVars, appVars, dispVars>>

\* `if let Ok(error) = read_stderr_rx.recv_timeout(10ms)`: a queued line
\* is received, an empty queue times out.
worker_recv_stderr ==
    /\ w_pc = "stderr"
    /\ w_pc' = "stdout"
    /\ IF read_stderr_rx # <<>>
       THEN /\ read_stderr_rx' = Tail(read_stderr_rx)
            /\ events' = Append(events, ErrorAPI(Head(read_stderr_rx)))
            /\ has_error' = IF task = "logs" THEN TRUE ELSE has_error
       ELSE UNCHANGED <<read_stderr_rx, events, has_error>>
    /\ UNCHANGED <<task, logs_result>>
    /\ UNCHANGED <<stdout_thread, stderr_thread, log_channel_thread,
                   read_stdout_rx, err_rx, sent_stdout, sent_stderr>>
    /\ UNCHANGED <<monVars, childVars, storeVars>>
    /\ UNCHANGED <<regVars, truncVars, appVars, dispVars>>

\* `if let Ok(line) = read_stdout_rx.recv_timeout(10ms)`
worker_recv_stdout ==
    /\ w_pc = "stdout"
    /\ w_pc' = "check"
    /\ IF read_stdout_rx # <<>>
       THEN /\ read_stdout_rx' = Tail(read_stdout_rx)
            /\ events' = events \o
                  (IF task = "logs"
                   THEN LogsLineEvents(Head(read_stdout_rx))
                   ELSE LoginLineEvents(Head(read_stdout_rx)))
       ELSE UNCHANGED <<read_stdout_rx, events>>
    /\ UNCHANGED <<task, has_error, logs_result>>
    /\ UNCHANGED <<stdout_thread, stderr_thread, log_channel_thread,
                   read_stderr_rx, err_rx, sent_stdout, sent_stderr>>
    /\ UNCHANGED <<monVars, childVars, storeVars>>
    /\ UNCHANGED <<regVars, truncVars, appVars, dispVars>>

\* get_logs after the loop: `child.wait()` and the classification of the
\* run.
get_logs_return ==
    /\ w_pc = "wait"
    /\ child.state = "exited"
    /\ logs_result' = LogsResult(child.status, has_error)
    /\ w_pc' = "done"
    /\ UNCHANGED <<task, has_error>>
    /\ UNCHANGED <<events, monVars, childVars, chanVars, storeVars>>
    /\ UNCHANGED <<regVars, truncVars, appVars, dispVars>>

\* The caller of get_logs: `if let Err(error) = get_logs(..) { send
\* Error(API(error)) }`.  The model follows one iteration of the caller's
\* loop.
logs_thread_report ==
    /\ task = "logs"
    /\ w_pc = "done"
    /\ w_pc' = "reported"
    /\ events' = IF logs_result.kind = "Err"
                 THEN Append(events, ErrorAPI(logs_result.val))
                 ELSE events
    /\ UNCHANGED <<task, has_error, logs_result>>
    /\ UNCHANGED <<monVars, childVars, chanVars, storeVars>>
    /\ UNCHANGED <<regVars, truncVars, appVars, dispVars>>

WorkerInit(t) ==
    /\ task = t
    /\ w_pc = "check"
    /\ has_error = FALSE
    /\ logs_result = None

(***************************************************************************)
(* Truncatorix: NoopTruncator and TopTruncator.                            *)
(***************************************************************************)
\* `as i16` of a usize: the low 16 bits, read as two's complement.
ToI16(n) ==
    LET m == n % 65536 IN IF m >= 32768 THEN m - 65536 ELSE m

\* `data.len() as i16 - self.from_to_top` overflows i16.
SubOverflows(len, c) ==
    ToI16(len) - c < -32768 \/ ToI16(len) - c > 32767

\* The difference as the build without overflow checks computes it.
TruncateIndex(len, c) == ToI16(ToI16(len) - c + 65536)

\* With overflow checks the subtraction panics instead.
TruncatePanics(len, c, checks) == checks /\ SubOverflows(len, c)

\* TopTruncator::truncate on the "logs" entry of the logs widget:
\* `if truncate_index > 0 { set_data("logs", data.split_off(index)) }`.
TopTruncate_KeepsOldest(data, c) ==
    IF data.kind = "Some" /\ TruncateIndex(Len(data.val), c) > 0
    THEN Some(SubSeq(data.val, 1, TruncateIndex(Len(data.val), c)))
    ELSE data
TopTruncate(data, c) ==
    IF data.kind = "Some" /\ TruncateIndex(Len(data.val), c) > 0
    THEN Some(SubSeq(data.val, TruncateIndex(Len(data.val), c) + 1,
                     Len(data.val)))
    ELSE data

NoopTruncator == [kind |-> "noop", from_to_top |-> 0,
                  overflow_checks |-> FALSE]
TopTruncator(c, checks) == [kind |-> "top", from_to_top |-> c,
                            overflow_checks |-> checks]

\* Truncatorix::truncate of the truncator in use.
Truncate(t, data) ==
    IF t.kind = "top" THEN TopTruncate(data, t.from_to_top) ELSE data

\* One call of truncate with the widget lock free.
truncate ==
    /\ trunc_pc = "ready"
    /\ Len(trunc_hist) <= MaxTruncates
    /\ IF /\ truncator.kind = "top"
          /\ store.logs.kind = "Some"
          /\ TruncatePanics(Len(store.logs.val), truncator.from_to_top,
                            truncator.overflow_checks)
       THEN /\ trunc_pc' = "panicked"
            /\ UNCHANGED <<store, trunc_hist>>
       ELSE /\ store' = [store EXCEPT !.logs = Truncate(truncator, @)]
            /\ trunc_hist' = Append(trunc_hist, Truncate(truncator, store.logs))
            /\ UNCHANGED trunc_pc
    /\ UNCHANGED <<store_pos, store_tx, action_tx, truncator, ui_lock>>
    /\ UNCHANGED appVars
    /\ UNCHANGED <<events, monVars, childVars, chanVars, workerVars,
                   regVars, dispVars>>

\* The store runs with a NoopTruncator and nothing renders.
TruncIdle ==
    /\ truncator = NoopTruncator
    /\ trunc_pc = "ready"
    /\ trunc_hist = <<>>
    /\ ui_lock = "none"

\* ThreadManage::new(false, false, false) in run_app.
NoneStarted == [logs |-> FALSE, pods |-> FALSE, tail |-> FALSE]

\* The dispatcher is not running, nor is the app.
DispIdle ==
    /\ app_pc = "idle"
    /\ app_pos = 0
    /\ thread_mngt = NoneStarted
    /\ keys = 0
    /\ disp_pc = "idle"
    /\ disp_pos = 0
    /\ cmds = <<>>
    /\ active_env = "none"
    /\ disp_hist = <<>>

(***************************************************************************)
(* WidgetDataStore::start: the store consuming events.                     *)
(***************************************************************************)
\* TUIAction, as sent on action_tx.
Action(type, env) == [type |-> type, env |-> env]

\* RenderWidget::set_data and clear_text_data on one entry of a widget's
\* data: try_lock on the widget's mutex, and nothing happens when the lock
\* is not obtained.
set_data(data, text, locked) == IF locked THEN Some(text) ELSE data
clear_text_data(data, locked) == IF locked THEN None ELSE data

\* add_to_widget_data: append to the "logs" entry of a widget.  get_data
\* returns an empty CliWidgetData when it does not obtain the lock.
add_to_widget_data(data, text, got, locked) ==
    IF got /\ data.kind = "Some"
    THEN set_data(data, Append(data.val, text), locked)
    ELSE set_data(data, <<text>>, locked)

\* The widget whose mutex the handling of the event tries to lock.
WidgetOf(ev) ==
    CASE ev.type \in {"Error", "ClearError", "EnvChange", "IsConnected"}
            -> "header"
      [] ev.type \in {"IsLoggedIn", "AddLoginLog"} -> "login"
      [] ev.type = "AddLog" -> "logs"
      [] ev.type = "AddPods" -> "pods"
      [] OTHER -> "no widget"

\* `self.store.request_login = flag`, the one field the arms for
\* CheckConnectivity, RequestLoginStart and RequestLoginStop assign.
RequestLogin_LogsOut(s, flag) ==
    [s EXCEPT !.request_login = flag, !.logged_in = ~flag]
RequestLogin(s, flag) == [s EXCEPT !.request_login = flag]

\* The match on the event: the Store after the event, when the first and
\* the second try_lock of the handling obtain the lock or not.
Apply(s, ev, l1, l2) ==
    CASE ev.type = "RequestEnvChange" ->
            [s EXCEPT !.env_change_possible = TRUE]
      [] ev.type = "EnvChange" ->
            [s EXCEPT !.env_change_possible = FALSE,
                      !.kube_info = set_data(@, ev.text, l1)]
      [] ev.type = "Error" /\ ev.kind = "VPN" ->
            [s EXCEPT !.error = set_data(@, <<"Uhm... VPN on ?">>, l1)]
      [] ev.type = "Error" /\ ev.kind # "VPN" ->
            [s EXCEPT !.error = set_data(@, ev.text, l1)]
      [] ev.type = "ClearError" ->
            [s EXCEPT !.error = clear_text_data(@, l1)]
      [] ev.type = "CheckConnectivity" -> RequestLogin(s, FALSE)
      [] ev.type = "RequestLoginStart" -> RequestLogin(s, TRUE)
      [] ev.type = "RequestLoginStop" -> RequestLogin(s, FALSE)
      [] ev.type = "IsLoggedIn" ->
            [s EXCEPT !.logged_in = TRUE,
                      !.login_logs = clear_text_data(@, l1)]
      [] ev.type = "IsConnected" ->
            [s EXCEPT !.logged_in = TRUE,
                      !.login_info = set_data(@, <<"LOGGED IN">>, l1)]
      [] ev.type = "DisplayLoginCode" ->
            [s EXCEPT !.login_code = Some(ev.text)]
      [] ev.type = "AddLoginLog" ->
            [s EXCEPT !.login_logs = add_to_widget_data(@, ev.text, l1, l2)]
      [] ev.type = "AddLog" ->
            [s EXCEPT !.logs = add_to_widget_data(@, ev.text, l1, l2)]
      [] ev.type = "AddPods" ->
            [s EXCEPT !.pods =
                  set_data(clear_text_data(@, l1), <<ev.text>>, l2)]
      [] OTHER -> s

\* The Store after the event when every lock is obtained.
Reduce(s, ev) == Apply(s, ev, TRUE, TRUE)

\* The TUIActions the match sends for the event.
ActionsFor(ev) ==
    CASE ev.type = "EnvChange" -> <<Action("ChangeEnv", ev.text[1])>>
      [] ev.type = "CheckConnectivity" -> <<Action("CheckConnectivity", "")>>
      [] ev.type = "NeedsLogin" -> <<Action("LogIn", "")>>
      [] ev.type = "IsLoggedIn" -> <<Action("CheckConnectivity", "")>>
      [] OTHER -> <<>>

\* Whether the match calls self.send() for the event.
Publishes_NotOnLogin(ev) == ev.type \notin {"NeedsLogin", "IsLoggedIn"}
Publishes(ev) == ev.type # "NeedsLogin"

\* One iteration of `while let Ok(event) = self.event_rx.recv()`: the
\* match, the actions it sends, self.send(), and the truncator: poll
\* answers Some(()) when more than 5 s have passed since it last did (never
\* for a NoopTruncator, whose get_time is the present), and truncate
\* changes the buffer only when it obtains the lock of the logs widget.
store_recv ==
    /\ store_pos < Len(events)
    /\ LET ev == events[store_pos + 1]
       IN  \E l1, l2, l3, due \in BOOLEAN :
              /\ ui_lock # WidgetOf(ev) => l1 /\ l2
              /\ ui_lock # "logs" => l3
              /\ truncator.kind # "top" => ~due
              /\ LET handled == Apply(store, ev, l1, l2)
                 IN  /\ store_tx' = IF Publishes(ev)
                                    THEN Append(store_tx, handled)
                                    ELSE store_tx
                     /\ store' = IF due /\ l3
                                 THEN [handled EXCEPT
                                          !.logs = Truncate(truncator, @)]
                                 ELSE handled
              /\ action_tx' = action_tx \o ActionsFor(ev)
    /\ store_pos' = store_pos + 1
    /\ UNCHANGED <<events, monVars, childVars, chanVars, workerVars>>
    /\ UNCHANGED <<regVars, truncVars, appVars, dispVars>>

\* Store::new and the first self.send().
StoreNew ==
    [request_login |-> FALSE, logged_in |-> FALSE,
     env_change_possible |-> FALSE, login_code |-> None,
     error |-> None, kube_info |-> None, login_info |-> None,
     logs |-> None, login_logs |-> None, pods |-> None]

StoreInit ==
    /\ store = StoreNew
    /\ store_pos = 0
    /\ store_tx = <<StoreNew>>
    /\ action_tx = <<>>

\* The remaining TUIEvents.
ClearError == Event("ClearError", "", <<>>)
CheckConnectivity == Event("CheckConnectivity", "", <<>>)
RequestLoginStart == Event("RequestLoginStart", "", <<>>)
RequestLoginStop == Event("RequestLoginStop", "", <<>>)
RequestEnvChange == Event("RequestEnvChange", "", <<>>)
EnvChange(env) == Event("EnvChange", "", <<env>>)
NeedsLogin == Event("NeedsLogin", "", <<>>)
IsConnected == Event("IsConnected", "", <<>>)
AddPods(text) == Event("AddPods", "", text)
AddTailLog(line) == Event("AddTailLog", "", line)

\* The events the threads holding a clone of event_tx send.
StoreEvents ==
    {ErrorVPN, ErrorAPI(<<"e">>), ClearError, CheckConnectivity,
     RequestLoginStart, RequestLoginStop, RequestEnvChange,
     EnvChange("Dev"), EnvChange("Prod"), NeedsLogin,
     DisplayLoginCode(<<"c">>), IsLoggedIn, IsConnected,
     AddLoginLog(<<"a">>), AddLog(<<"a">>), AddLog(<<"b">>),
     AddPods(<<"p">>), AddTailLog(<<"t">>)}

\* event_tx.send(event) by any producer: the channel queues the events in
\* the order of the sends.
send_event ==
    /\ Len(events) < MaxEvents
    /\ \E ev \in StoreEvents : events' = Append(events, ev)
    /\ UNCHANGED <<monVars, childVars, chanVars, workerVars, storeVars>>
    /\ UNCHANGED <<regVars, truncVars, appVars, dispVars>>

\* The widgets of the Store, each behind its own Arc<Mutex<CliWidget>>.
Widgets == {"header", "login", "logs", "pods"}

\* The UI thread, rendering a widget of the snapshot it received:
\* self.widget.lock().unwrap() for the time of the expression.
render_lock ==
    /\ ui_lock = "none"
    /\ Len(store_tx) > 0
    /\ \E w \in Widgets : ui_lock' = w
    /\ UNCHANGED <<truncator, trunc_pc, trunc_hist, appVars>>
    /\ UNCHANGED <<events, monVars, childVars, chanVars, workerVars>>
    /\ UNCHANGED <<storeVars, regVars, dispVars>>
render_unlock ==
    /\ ui_lock # "none"
    /\ ui_lock' = "none"
    /\ UNCHANGED <<truncator, trunc_pc, trunc_hist, appVars>>
    /\ UNCHANGED <<events, monVars, childVars, chanVars, workerVars>>
    /\ UNCHANGED <<storeVars, regVars, dispVars>>

\* What the holder of a snapshot reads from it.  Store::clone copies the
\* scalar fields and clones the widgets, whose derived Clone copies the
\* Arc and not the CliWidget behind it: the data of every widget is read
\* from the cell the store writes.
Observe(snap) ==
    [snap EXCEPT !.error = store.error,
                 !.kube_info = store.kube_info,
                 !.login_info = store.login_info,
                 !.logs = store.logs,
                 !.login_logs = store.login_logs,
                 !.pods = store.pods]

(***************************************************************************)
(* App::run_app: the receiver of the snapshots and initiator of the tasks. *)
(***************************************************************************)
\* The store thread may be inside a try_lock section of the widget: it has
\* an event to handle that writes the widget, or (logs) a truncator that
\* does.
LockedByStore(w) ==
    /\ store_pos < Len(events)
    /\ \/ WidgetOf(events[store_pos + 1]) = w
       \/ w = "logs" /\ truncator.kind = "top"

\* App::initiate_threads on the snapshot in self.store.  For each task not
\* yet started it calls `get_data().initiate_thread.unwrap()(action_tx)`
\* and sets the flag; get_data answers CliWidgetData::default(), whose
\* initiate_thread is None, when it does not obtain the widget's lock, and
\* the unwrap panics.  Store has no tail_widget: for the tail task only
\* the flag is set.  got_logs, got_pods: whether get_data obtains the lock.
initiate_threads_KeepsFlag(m, logged_in, got_logs, got_pods) ==
    IF ~logged_in
    THEN [mngt |-> m, sent |-> <<>>, panic |-> FALSE]
    ELSE IF ~m.logs /\ ~got_logs
    THEN [mngt |-> m, sent |-> <<>>, panic |-> TRUE]
    ELSE IF ~m.pods /\ ~got_pods
    THEN [mngt |-> [m EXCEPT !.tail = TRUE],
          sent |-> IF m.logs THEN <<>> ELSE <<Action("GetLogs", "")>>,
          panic |-> TRUE]
    ELSE [mngt |-> [m EXCEPT !.tail = TRUE, !.pods = TRUE],
          sent |-> (IF m.logs THEN <<>> ELSE <<Action("GetLogs", "")>>)
                    \o (IF m.pods THEN <<>> ELSE <<Action("GetPods", "")>>),
          panic |-> FALSE]
initiate_threads(m, logged_in, got_logs, got_pods) ==
    IF ~logged_in
    THEN [mngt |-> m, sent |-> <<>>, panic |-> FALSE]
    ELSE IF ~m.logs /\ ~got_logs
    THEN [mngt |-> m, sent |-> <<>>, panic |-> TRUE]
    ELSE IF ~m.pods /\ ~got_pods
    THEN [mngt |-> [m EXCEPT !.logs = TRUE, !.tail = TRUE],
          sent |-> IF m.logs THEN <<>> ELSE <<Action("GetLogs", "")>>,
          panic |-> TRUE]
    ELSE [mngt |-> [m EXCEPT !.logs = TRUE, !.tail = TRUE, !.pods = TRUE],
          sent |-> (IF m.logs THEN <<>> ELSE <<Action("GetLogs", "")>>)
                    \o (IF m.pods THEN <<>> ELSE <<Action("GetPods", "")>>),
          panic |-> FALSE]

\* `while let Ok(updated_store) = self.store_rx.recv_timeout(..)`: the
\* snapshot becomes self.store and initiate_threads runs.
app_recv ==
    /\ app_pc = "run"
    /\ app_pos < Len(store_tx)
    /\ app_pos' = app_pos + 1
    /\ \E got_logs, got_pods \in BOOLEAN :
          /\ ~LockedByStore("logs") => got_logs
          /\ ~LockedByStore("pods") => got_pods
          /\ LET r == initiate_threads(thread_mngt,
                                       store_tx[app_pos + 1].logged_in,
                                       got_logs, got_pods)
             IN  /\ thread_mngt' = r.mngt
                 /\ action_tx' = action_tx \o r.sent
                 /\ app_pc' = IF r.panic THEN "panicked" ELSE "run"
    /\ UNCHANGED keys
    /\ UNCHANGED <<store, store_pos, store_tx>>
    /\ UNCHANGED <<events, monVars, childVars, chanVars, workerVars>>
    /\ UNCHANGED <<regVars, truncVars, dispVars>>

\* The keys the user presses: 'E', '1', '2', and 'x' for any key without
\* a binding.  The direction keys send nothing and 'q' ends run_app: they
\* are left out.
Keys == {"E", "1", "2", "x"}
ErrorKEY(key) ==
    Event("Error", "KEY", <<"Unrecognised key: ", key, " Press q to quit">>)

\* The keymap of create_request_login_widget_data, one of the
\* extended_keymap checks: what it sends for the key.
request_login_keymap(snap, key) ==
    IF ~snap.request_login THEN <<>>
    ELSE IF key = "1"
    THEN <<RequestLoginStop, ClearError, CheckConnectivity>>
    ELSE IF key = "2" THEN <<RequestLoginStop, NeedsLogin>>
    ELSE <<>>

\* App::handle_user_input on the snapshot in self.store, and the match on
\* its result in run_app: the events sent for the key.  The primary key
\* 'E' is tried first, then the environment menu
\* when env_change_possible, then the login prompt when request_login,
\* then the extended keymap followed by Error(KEY).
handle_user_input(snap, key) ==
    IF key = "E" THEN <<RequestEnvChange>>
    ELSE IF snap.env_change_possible
    THEN IF key = "1" THEN <<EnvChange("Dev")>>
         ELSE IF key = "2" THEN <<EnvChange("Prod")>>
         ELSE <<>>
    ELSE IF snap.request_login
    THEN IF key = "1"
         THEN <<RequestLoginStop, ClearError, CheckConnectivity>>
         ELSE IF key = "2" THEN <<RequestLoginStop, NeedsLogin>>
         ELSE <<ErrorKEY(key)>>
    ELSE request_login_keymap(snap, key) \o <<ErrorKEY(key)>>

\* One iteration of run_app that reads a key: handle_user_input answers
\* None while self.store is None, before the first snapshot was received.
key_press ==
    /\ app_pc = "run"
    /\ app_pos > 0
    /\ keys < MaxKeys
    /\ keys' = keys + 1
    /\ \E key \in Keys :
          events' = events \o handle_user_input(store_tx[app_pos], key)
    /\ UNCHANGED <<app_pc, app_pos, thread_mngt>>
    /\ UNCHANGED <<monVars, childVars, chanVars, workerVars, storeVars>>
    /\ UNCHANGED <<regVars, truncVars, dispVars>>

\* The branch of run_app that draws "What do you want to do?  1. retry
\* 2. Login to AWS": the login widget has no "logs" entry, the snapshot
\* is not logged in and its request_login is set.
login_prompt(snap) ==
    /\ Observe(snap).login_logs = None
    /\ ~snap.logged_in
    /\ snap.request_login

\* run_app is entered.
AppInit ==
    /\ app_pc = "run"
    /\ app_pos = 0
    /\ thread_mngt = NoneStarted
    /\ keys = 0

\* The dispatcher is not running.
DispatcherIdle ==
    /\ disp_pc = "idle"
    /\ disp_pos = 0
    /\ cmds = <<>>
    /\ active_env = "none"
    /\ disp_hist = <<>>

(***************************************************************************)
(* action_handler::start: the dispatcher of TUIActions.                    *)
(***************************************************************************)
\* KubeEnv, and by the same names the KubeEnvData constants DEV and PROD.
KubeEnvs == {"Dev", "Prod"}

\* The TUIActions sent on action_tx.
Intents ==
    {Action("ChangeEnv", env) : env \in KubeEnvs}
        \cup {Action(t, "") : t \in {"CheckConnectivity", "LogIn",
                                     "GetLogs", "GetPods"}}

\* action_tx.send(action) by the store or by the UI.
send_action ==
    /\ disp_pc # "idle"
    /\ Len(action_tx) < MaxIntents
    /\ \E a \in Intents : action_tx' = Append(action_tx, a)
    /\ UNCHANGED <<store, store_pos, store_tx>>
    /\ UNCHANGED <<events, monVars, childVars, chanVars, workerVars>>
    /\ UNCHANGED <<regVars, truncVars, appVars, dispVars>>

\* A spawned command: its kind, the KubeEnvData whose profile, cluster or
\* namespace its command line carries, the intent it was spawned for, the
\* state of the child, and (history) the active environment at the spawn.
Cmd(kind, env, by, state) ==
    [kind |-> kind, env |-> env, by |-> by, state |-> state,
     active |-> active_env]

\* Command::spawn: Ok(child), or Err when the program cannot be started.
SpawnStates == {"running", "nospawn"}

\* The first command of each match arm.  login_command, get_logs_command
\* and get_pods_command carry the names of DEV; update_kubeconfig_command
\* those of its argument.
FirstCmd_AlwaysDev(a, by, state) ==
    CASE a.type = "ChangeEnv" -> Cmd("update_kubeconfig", "Dev", by, state)
      [] a.type = "CheckConnectivity" -> Cmd("get_pods", "Dev", by, state)
      [] a.type = "GetPods" -> Cmd("get_pods", "Dev", by, state)
      [] a.type = "LogIn" -> Cmd("login", "Dev", by, state)
      [] OTHER -> Cmd("get_logs", "Dev", by, state)
FirstCmd(a, by, state) ==
    CASE a.type = "ChangeEnv" -> Cmd("update_kubeconfig", a.env, by, state)
      [] a.type = "CheckConnectivity" -> Cmd("get_pods", "Dev", by, state)
      [] a.type = "GetPods" -> Cmd("get_pods", "Dev", by, state)
      [] a.type = "LogIn" -> Cmd("login", "Dev", by, state)
      [] OTHER -> Cmd("get_logs", "Dev", by, state)

\* Where the loop blocks after the spawn; LogIn and GetLogs are handed to
\* a thread and the loop goes back to recv.
BlockedOn(a) ==
    CASE a.type = "ChangeEnv" -> "update_kubeconfig"
      [] a.type = "CheckConnectivity" -> "check_connectivity"
      [] a.type = "GetPods" -> "get_pods"
      [] OTHER -> "recv"

\* `while let Ok(action) = action_rx.recv()` and the start of the arm.
recv_action ==
    /\ disp_pc = "recv"
    /\ disp_pos < Len(action_tx)
    /\ disp_pos' = disp_pos + 1
    /\ \E state \in SpawnStates :
          cmds' = Append(cmds, FirstCmd(action_tx[disp_pos + 1],
                                        disp_pos + 1, state))
    /\ disp_pc' = BlockedOn(action_tx[disp_pos + 1])
    /\ disp_hist' = Append(disp_hist, [runs |-> <<>>, events |-> <<>>])
    /\ UNCHANGED active_env
    /\ UNCHANGED <<events, monVars, childVars, chanVars, workerVars>>
    /\ UNCHANGED <<storeVars, regVars, truncVars, appVars>>

\* A run of wait_for_output_with_timeout, from its call to its return:
\* how it ended, and whether it sent the Error(VPN) warning (always before
\* it gives up at the ceiling).
TimedRuns ==
    {[end |-> "exit", status |-> st, warned |-> w] :
        st \in ExitStatuses, w \in BOOLEAN}
      \cup {[end |-> "timeout", status |-> [normal |-> TRUE, code |-> 0],
             warned |-> TRUE]}
\* No run: the command was not spawned.
NoSpawn ==
    [end |-> "nospawn", status |-> [normal |-> TRUE, code |-> 0],
     warned |-> FALSE]
RunsOf(c) == IF c.state = "nospawn" THEN {NoSpawn} ELSE TimedRuns

\* The Result of update_kubeconfig / check_connectivity.
TimedResult(o) ==
    CASE o.end = "nospawn" -> Err(<<"spawn">>)
      [] o.end = "timeout" -> Err(<<"timeout">>)
      [] OTHER -> ExitResult(o.status, <<>>)
TimedPanics(o) == o.end = "exit" /\ ExitPanics(o.status)
Warning(o) == IF o.warned THEN <<ErrorVPN>> ELSE <<>>

\* The child after the run: reaped when it exited, left as it is when the
\* run gave up.
AfterRun(c, o) ==
    CASE o.end = "exit" -> [c EXCEPT !.state = "exited"]
      [] o.end = "timeout" -> ChildAfterTimeout(c)
      [] OTHER -> c

\* The events the arms send for the Result of update_kubeconfig.
AfterKubeconfig_ClearFirst(res) ==
    IF res.kind = "Ok"
    THEN <<ClearError, IsConnected>>
    ELSE <<RequestLoginStart>>
AfterKubeconfig(res) ==
    IF res.kind = "Ok"
    THEN <<IsConnected, ClearError>>
    ELSE <<RequestLoginStart>>

\* The events for Err(error) of check_connectivity.
AfterCheckFailed(error) == <<ErrorAPI(error), RequestLoginStart>>

\* The command the arm in progress waits for: the last one it spawned.
Current ==
    CHOOSE i \in 1..Len(cmds) :
        /\ cmds[i].by = disp_pos
        /\ \A j \in (i + 1)..Len(cmds) : cmds[j].by # disp_pos

\* What the handling of the intent in progress has run and sent.
Record(o, evs) ==
    [disp_hist EXCEPT ![disp_pos] =
        [runs |-> Append(@.runs, o), events |-> @.events \o evs]]

\* The rest of the ChangeEnv arm, and of the CheckConnectivity arm after
\* check_connectivity returned Ok: update_kubeconfig returns.
update_kubeconfig ==
    /\ disp_pc = "update_kubeconfig"
    /\ LET c == cmds[Current]
       IN  \E o \in RunsOf(c) :
              LET res == TimedResult(o)
                  evs == IF TimedPanics(o) THEN Warning(o)
                         ELSE Warning(o) \o AfterKubeconfig(res)
              IN  /\ disp_pc' = IF TimedPanics(o) THEN "panicked" ELSE "recv"
                  /\ events' = events \o evs
                  /\ disp_hist' = Record(o, evs)
                  /\ cmds' = [cmds EXCEPT ![Current] = AfterRun(c, o)]
                  /\ active_env' =
                        IF /\ ~TimedPanics(o)
                           /\ res.kind = "Ok"
                           /\ action_tx[disp_pos].type = "ChangeEnv"
                        THEN c.env
                        ELSE active_env
    /\ UNCHANGED disp_pos
    /\ UNCHANGED <<monVars, childVars, chanVars, workerVars>>
    /\ UNCHANGED <<storeVars, regVars, truncVars, appVars>>

\* The CheckConnectivity arm: check_connectivity returns, and on Ok the
\* arm calls update_kubeconfig(DEV).
check_connectivity ==
    /\ disp_pc = "check_connectivity"
    /\ LET c == cmds[Current]
           done(o) == [cmds EXCEPT ![Current] = AfterRun(c, o)]
       IN  \E o \in RunsOf(c), state \in SpawnStates :
              LET res == TimedResult(o)
                  evs == IF TimedPanics(o) \/ res.kind = "Ok"
                         THEN Warning(o)
                         ELSE Warning(o) \o AfterCheckFailed(res.val)
              IN  /\ disp_pc' = IF TimedPanics(o) THEN "panicked"
                                ELSE IF res.kind = "Ok"
                                     THEN "update_kubeconfig"
                                     ELSE "recv"
                  /\ events' = events \o evs
                  /\ disp_hist' = Record(o, evs)
                  /\ cmds' = IF ~TimedPanics(o) /\ res.kind = "Ok"
                             THEN Append(done(o),
                                         Cmd("update_kubeconfig", "Dev",
                                             disp_pos, state))
                             ELSE done(o)
    /\ UNCHANGED <<disp_pos, active_env>>
    /\ UNCHANGED <<monVars, childVars, chanVars, workerVars>>
    /\ UNCHANGED <<storeVars, regVars, truncVars, appVars>>

\* What the child of get_pods wrote on stderr.
Stderrs == {<<>>, <<"e", "\n">>}

\* A run of wait_for_output: child.wait_with_output() blocks until the
\* child has ended, however long that takes.
WaitRuns(c) ==
    IF c.state = "nospawn" THEN {NoSpawn}
    ELSE {[end |-> "exit", status |-> st, stdout |-> out, stderr |-> err] :
             st \in ExitStatuses, out \in Outputs, err \in Stderrs}

\* wait_for_output
wait_for_output(o) ==
    IF o.end = "nospawn" THEN Err(<<"spawn">>)
    ELSE IF Success(o.status)
         THEN Ok(o.stdout)
         ELSE Err(<<"Error: {:?}">> \o o.stderr)

\* The events of the GetPods arm for the Result of get_pods.
AfterGetPods_NoLogin(res) ==
    IF res.kind = "Ok"
    THEN <<AddPods(res.val)>>
    ELSE <<ErrorAPI(res.val)>>
AfterGetPods(res) ==
    IF res.kind = "Ok"
    THEN <<AddPods(res.val)>>
    ELSE <<ErrorAPI(res.val), RequestLoginStart>>

\* The GetPods arm: get_pods returns.
get_pods ==
    /\ disp_pc = "get_pods"
    /\ LET c == cmds[Current]
       IN  \E o \in WaitRuns(c) :
              LET evs == AfterGetPods(wait_for_output(o))
              IN  /\ events' = events \o evs
                  /\ disp_hist' = Record(o, evs)
                  /\ cmds' = [cmds EXCEPT ![Current] = AfterRun(c, o)]
    /\ disp_pc' = "recv"
    /\ UNCHANGED <<disp_pos, active_env>>
    /\ UNCHANGED <<monVars, childVars, chanVars, workerVars>>
    /\ UNCHANGED <<storeVars, regVars, truncVars, appVars>>

\* A child nobody waits for ends by itself: the child of a handed-off
\* LogIn or GetLogs, or the one a timed-out run left behind.
cmd_exit ==
    /\ \E i \in 1..Len(cmds) :
          /\ cmds[i].state = "running"
          /\ disp_pc = "recv" \/ disp_pc = "panicked" \/ i # Current
          /\ cmds' = [cmds EXCEPT ![i].state = "exited"]
    /\ UNCHANGED <<disp_pc, disp_pos, active_env, disp_hist>>
    /\ UNCHANGED <<events, monVars, childVars, chanVars, workerVars>>
    /\ UNCHANGED <<storeVars, regVars, truncVars, appVars>>

\* The thread of the GetLogs arm, `while logs_thread { get_logs(..) }`,
\* after a run of get_logs has returned: logs_thread is the thread's own
\* copy of the flag and stays true, so an Err is reported as Error(API)
\* and get_logs_command is called again.
logs_thread ==
    /\ \E i \in 1..Len(cmds), state \in SpawnStates,
          st \in ExitStatuses, flag \in BOOLEAN :
          LET mine == {j \in 1..Len(cmds) :
                          cmds[j].kind = "get_logs" /\ cmds[j].by = cmds[i].by}
              r == IF cmds[i].state = "nospawn"
                   THEN Err(<<"process quit immediately">>)
                   ELSE LogsResult(st, flag)
          IN  /\ i \in mine
              /\ \A j \in mine : j <= i
              /\ cmds[i].state \in {"exited", "nospawn"}
              /\ Len(cmds) < MaxRuns
              /\ events' = IF r.kind = "Err"
                            THEN Append(events, ErrorAPI(r.val))
                            ELSE events
              /\ cmds' = Append(cmds, Cmd("get_logs", "Dev", cmds[i].by,
                                          state))
    /\ UNCHANGED <<disp_pc, disp_pos, active_env, disp_hist>>
    /\ UNCHANGED <<monVars, childVars, chanVars, workerVars>>
    /\ UNCHANGED <<storeVars, regVars, truncVars, appVars>>

\* action_handler::start is entered with nothing received yet.
DispInit ==
    /\ app_pc = "idle"
    /\ app_pos = 0
    /\ thread_mngt = NoneStarted
    /\ keys = 0
    /\ disp_pc = "recv"
    /\ disp_pos = 0
    /\ cmds = <<>>
    /\ active_env = "none"
    /\ disp_hist = <<>>

(***************************************************************************)
(* ThreadManager: the registry of workers, and AwsAPI::get_logs / login    *)
(* which spawn a child and hand it to the registry.                        *)
(***************************************************************************)
\* WidgetTaskId of the two streamed tasks.
TaskIds == {"GetLogs", "GetLoginLogs"}

\* An entry of `threads`: whether the id has a JoinHandle in the map, the
\* child its worker was handed, JoinHandle::is_finished.
NoThread == [present |-> FALSE, child |-> 0, finished |-> FALSE]

\* ThreadManager::new: `threads: HashMap::default()`.
RegInit ==
    /\ threads = [id \in TaskIds |-> NoThread]
    /\ procs = [id \in TaskIds |-> <<>>]
    /\ calls = 0

\* `if let None = self.threads.get(&id) { spawn; insert }`: the map after
\* the call, for a worker that is handed child number c.
run_thread(t, id, c) ==
    IF ~t[id].present
    THEN [t EXCEPT ![id] = [present |-> TRUE, child |-> c,
                            finished |-> FALSE]]
    ELSE t

\* run_thread_timeout(id, child, on_line, on_error, handler): the same
\* check-and-insert, the worker owning the child it was handed.
run_thread_timeout(t, id, c) == run_thread(t, id, c)

\* A child just spawned; `held` tells whether a worker owns its handle.
\* A handle that is dropped leaves the process running.
Spawned(held) ==
    [state |-> "running", status |-> [normal |-> TRUE, code |-> 0],
     held |-> held]

\* AwsAPI::get_logs / AwsAPI::login: `if let Ok(child) = <command>` and
\* then run_thread_timeout(id, child, ..).
AwsAPI_call(id) ==
    /\ calls < MaxCalls
    /\ calls' = calls + 1
    /\ \E spawn_ok \in BOOLEAN :
          IF spawn_ok
          THEN LET c == Len(procs[id]) + 1
                   t == run_thread_timeout(threads, id, c)
               IN  /\ threads' = t
                   /\ procs' = [procs EXCEPT
                                   ![id] = Append(@, Spawned(t # threads))]
          ELSE UNCHANGED <<threads, procs>>
    /\ UNCHANGED <<events, monVars, childVars, chanVars, workerVars,
                   storeVars>>
    /\ UNCHANGED <<truncVars, appVars, dispVars>>

AwsAPI_get_logs == AwsAPI_call("GetLogs")
AwsAPI_login == AwsAPI_call("GetLoginLogs")

\* A child process ends.
RegChildExit ==
    \E id \in TaskIds, i \in 1..MaxCalls, st \in ExitStatuses :
        /\ i <= Len(procs[id])
        /\ procs[id][i].state = "running"
        /\ procs' = [procs EXCEPT ![id][i].state = "exited",
                                  ![id][i].status = st]
        /\ UNCHANGED <<threads, calls>>
        /\ UNCHANGED <<events, monVars, childVars, chanVars, workerVars,
                       storeVars>>
        /\ UNCHANGED <<truncVars, appVars, dispVars>>

\* The worker of a task runs to its end: its child has exited and the
\* channel threads are finished.  `flag` is has_error: whether a stderr
\* line was received during the run.  For the log stream the run is
\* classified and an Err is reported as Error(API).  The JoinHandle stays
\* in `threads`.
RegWorkerFinish ==
    \E id \in TaskIds, flag \in BOOLEAN :
        /\ threads[id].present
        /\ ~threads[id].finished
        /\ procs[id][threads[id].child].state = "exited"
        /\ threads' = [threads EXCEPT ![id].finished = TRUE]
        /\ LET r == LogsResult(procs[id][threads[id].child].status, flag)
           IN  events' = IF id = "GetLogs" /\ r.kind = "Err"
                         THEN Append(events, ErrorAPI(r.val))
                         ELSE events
        /\ UNCHANGED <<procs, calls>>
        /\ UNCHANGED <<monVars, childVars, chanVars, workerVars, storeVars>>
        /\ UNCHANGED <<truncVars, appVars, dispVars>>

(***************************************************************************)
(* Specifications.                                                         *)
(***************************************************************************)
InitMonitor ==
    /\ events = <<>>
    /\ MonInit
    /\ ChannelIdle
    /\ WorkerIdle
    /\ StoreIdle
    /\ RegInit
    /\ TruncIdle
    /\ DispIdle

NextMonitor ==
    \/ Tick
    \/ MonChildExit
    \/ wait_for_output_with_timeout

SpecMonitor == InitMonitor /\ [][NextMonitor]_vars

\* Every text of at most n bytes over the alphabet.
Texts(n) == UNION {[1..k -> {"a", "b", "\n"}] : k \in 0..n}
\* The writes of `text` to `fd`, one byte each.
ByteOps(fd, text) == [i \in 1..Len(text) |-> [fd |-> fd, bytes |-> <<text[i]>>]]

InitReader ==
    /\ events = <<>>
    /\ MonIdle
    /\ \E text \in Texts(MaxBytes) :
          ChannelInit(ByteOps("out", text), [normal |-> TRUE, code |-> 0])
    /\ WorkerIdle
    /\ StoreIdle
    /\ RegInit
    /\ TruncIdle
    /\ DispIdle

NextReader ==
    \/ ChildWrite
    \/ ChildExit
    \/ stderr_thread_step
    \/ stdout_thread_step
    \/ log_channel_thread_recv
    \/ log_channel_thread_join

SpecReader == InitReader /\ [][NextReader]_vars

\* The lines a log-stream child may write.
LogOps ==
    {[fd |-> "out", bytes |-> <<"a", "\n">>],
     [fd |-> "out", bytes |-> <<"b", "\n">>],
     [fd |-> "err", bytes |-> <<"E", "1", "\n">>],
     [fd |-> "err", bytes |-> <<"E", "2", "\n">>]}

CodeLine == <<"M", "Q", "B", "J", "-", "X", "S", "Z", "B", "\n">>
SuccessLine == Successfully \o <<"\n">>
\* A code inside other letters, followed by the word: both events.
BothLine == <<"x", "M", "Q", "B", "J", "-", "X", "S", "Z", "B", "y", " ">>
                \o Successfully \o <<"\n">>
\* Three letters before the dash: no code.
PlainLine == <<"M", "Q", "B", "-", "X", "S", "Z", "B", "\n">>

\* The lines a login child may write.
LoginOps ==
    {[fd |-> "out", bytes |-> CodeLine],
     [fd |-> "out", bytes |-> SuccessLine],
     [fd |-> "out", bytes |-> BothLine],
     [fd |-> "out", bytes |-> PlainLine],
     [fd |-> "err", bytes |-> <<"E", "1", "\n">>]}

Scripts(ops, n) == UNION {[1..k -> ops] : k \in 0..n}

InitStream ==
    /\ events = <<>>
    /\ MonIdle
    /\ \E t \in {"logs", "login"} :
          /\ WorkerInit(t)
          /\ \E ops \in Scripts(IF t = "logs" THEN LogOps ELSE LoginOps,
                                MaxOps),
                code \in 0..1 :
                /\ t = "login" => code = 0
                /\ ChannelInit(ops, [normal |-> TRUE, code |-> code])
    /\ StoreInit
    /\ RegInit
    /\ TruncIdle
    /\ DispIdle

NextStream ==
    \/ ChildWrite
    \/ ChildExit
    \/ stderr_thread_step
    \/ stdout_thread_step
    \/ log_channel_thread_recv
    \/ log_channel_thread_join
    \/ worker_check
    \/ worker_recv_stderr
    \/ worker_recv_stdout
    \/ get_logs_return
    \/ logs_thread_report
    \/ store_recv

SpecStream == InitStream /\ [][NextStream]_vars

\* The run of get_logs or login without the store: the events stay on the
\* channel.
NextWorker ==
    \/ ChildWrite
    \/ ChildExit
    \/ stderr_thread_step
    \/ stdout_thread_step
    \/ log_channel_thread_recv
    \/ log_channel_thread_join
    \/ worker_check
    \/ worker_recv_stderr
    \/ worker_recv_stdout
    \/ get_logs_return
    \/ logs_thread_report

SpecWorker == InitStream /\ [][NextWorker]_vars

\* The reader threads, the supervisor and the worker are threads of their
\* own and each keeps running; nothing is assumed about the child.
SpecWorkerFair ==
    /\ SpecWorker
    /\ WF_vars(stderr_thread_step)
    /\ WF_vars(stdout_thread_step)
    /\ WF_vars(log_channel_thread_recv)
    /\ WF_vars(log_channel_thread_join)
    /\ WF_vars(worker_check)
    /\ WF_vars(worker_recv_stderr)
    /\ WF_vars(worker_recv_stdout)

\* The truncators a store is built with.
StoreTruncators == {NoopTruncator, TopTruncator(1, FALSE)}

InitStore ==
    /\ events = <<>>
    /\ MonIdle
    /\ ChannelIdle
    /\ WorkerIdle
    /\ RegInit
    /\ DispIdle
    /\ StoreInit
    /\ truncator \in StoreTruncators
    /\ trunc_pc = "ready"
    /\ trunc_hist = <<>>
    /\ ui_lock = "none"

NextStore ==
    \/ send_event
    \/ store_recv
    \/ render_lock
    \/ render_unlock

SpecStore == InitStore /\ [][NextStore]_vars

InitApp ==
    /\ events = <<>>
    /\ MonIdle
    /\ ChannelIdle
    /\ WorkerIdle
    /\ RegInit
    /\ DispatcherIdle
    /\ AppInit
    /\ StoreInit
    /\ truncator \in StoreTruncators
    /\ trunc_pc = "ready"
    /\ trunc_hist = <<>>
    /\ ui_lock = "none"

NextApp ==
    \/ send_event
    \/ store_recv
    \/ app_recv

SpecApp == InitApp /\ [][NextApp]_vars

InitDispatch ==
    /\ events = <<>>
    /\ MonIdle
    /\ ChannelIdle
    /\ WorkerIdle
    /\ StoreIdle
    /\ RegInit
    /\ TruncIdle
    /\ DispInit

NextDispatch ==
    \/ send_action
    \/ recv_action
    \/ update_kubeconfig
    \/ check_connectivity
    \/ get_pods
    \/ cmd_exit
    \/ logs_thread

SpecDispatch == InitDispatch /\ [][NextDispatch]_vars

\* The dispatcher thread keeps running: it takes the next intent when one
\* is queued, and a run of wait_for_output_with_timeout returns, at the
\* ceiling at the latest.  get_pods returns at once when its command was
\* not spawned, and otherwise only when its child ends: nothing makes a
\* child end.
SpecDispatchFair ==
    /\ SpecDispatch
    /\ WF_vars(recv_action)
    /\ WF_vars(update_kubeconfig)
    /\ WF_vars(check_connectivity)
    /\ WF_vars(get_pods /\ cmds[Current].state = "nospawn")

\* The app, the store and the dispatcher wired by their channels: the
\* events of the key presses and of the dispatcher are consumed by the
\* store, the intents of the store and of the app are received by the
\* dispatcher.  Within MaxKeys key presses no CheckConnectivity intent is
\* sent, and the log-stream thread is followed for one run of get_logs.
InitSystem ==
    /\ events = <<>>
    /\ MonIdle
    /\ ChannelIdle
    /\ WorkerIdle
    /\ RegInit
    /\ TruncIdle
    /\ StoreInit
    /\ AppInit
    /\ disp_pc = "recv"
    /\ disp_pos = 0
    /\ cmds = <<>>
    /\ active_env = "none"
    /\ disp_hist = <<>>

NextSystem ==
    \/ key_press
    \/ store_recv
    \/ app_recv
    \/ recv_action
    \/ update_kubeconfig
    \/ get_pods
    \/ cmd_exit

SpecSystem == InitSystem /\ [][NextSystem]_vars

\* The user at the keyboard: the app and the store, with the events of the
\* other threads arriving on event_tx; the dispatcher is left out and the
\* intents stay on action_tx.
InitKeys ==
    /\ events = <<>>
    /\ MonIdle
    /\ ChannelIdle
    /\ WorkerIdle
    /\ RegInit
    /\ TruncIdle
    /\ StoreInit
    /\ AppInit
    /\ DispatcherIdle

NextKeys ==
    \/ send_event
    \/ key_press
    \/ store_recv
    \/ app_recv

SpecKeys == InitKeys /\ [][NextKeys]_vars

InitRegistry ==
    /\ events = <<>>
    /\ MonIdle
    /\ ChannelIdle
    /\ WorkerIdle
    /\ StoreIdle
    /\ RegInit
    /\ TruncIdle
    /\ DispIdle

NextRegistry ==
    \/ AwsAPI_get_logs
    \/ AwsAPI_login
    \/ RegChildExit
    \/ RegWorkerFinish

SpecRegistry == InitRegistry /\ [][NextRegistry]_vars

\* Buffer lengths: the small ones, those around i16::MAX and u16::MAX, and
\* one in between.
BufferLens ==
    (0..MaxLen) \cup {I16Max - 1, I16Max, I16Max + 1, I16Max + 2,
                      I16Max + 7233, 2 * I16Max + 2}
Ceilings == (0..MaxCeiling) \cup {50, I16Max}

InitTruncate ==
    /\ events = <<>>
    /\ MonIdle
    /\ ChannelIdle
    /\ WorkerIdle
    /\ RegInit
    /\ DispIdle
    /\ \E len \in BufferLens, c \in Ceilings, checks \in BOOLEAN :
          /\ truncator = TopTruncator(c, checks)
          /\ store = [StoreNew EXCEPT
                         !.logs = IF len = 0 THEN None
                                  ELSE Some([i \in 1..len |-> i])]
    /\ trunc_hist = <<store.logs>>
    /\ trunc_pc = "ready"
    /\ ui_lock = "none"
    /\ store_pos = 0
    /\ store_tx = <<>>
    /\ action_tx = <<>>

NextTruncate == truncate

SpecTruncate == InitTruncate /\ [][NextTruncate]_vars

(***************************************************************************)
(* Properties.                                                             *)
(***************************************************************************)
IsPrefix(a, b) == Len(a) <= Len(b) /\ SubSeq(b, 1, Len(a)) = a

RECURSIVE Flatten(_)
Flatten(ss) == IF ss = <<>> THEN <<>> ELSE Head(ss) \o Flatten(Tail(ss))

\* The lines of a text: each ends with its newline, except a last line the
\* text leaves unterminated.
RECURSIVE SplitFrom(_, _, _)
SplitFrom(text, cur, acc) ==
    IF text = <<>>
    THEN (IF cur = <<>> THEN acc ELSE Append(acc, cur))
    ELSE IF Head(text) = "\n"
         THEN SplitFrom(Tail(text), <<>>, Append(acc, Append(cur, "\n")))
         ELSE SplitFrom(Tail(text), Append(cur, Head(text)), acc)
SplitLines(text) == SplitFrom(text, <<>>, <<>>)

IsError(e) == e.type = "Error"
NotError(e) == e.type # "Error"
\* The report of a failed run, as opposed to the report of a stderr line.
RunFailed == ErrorAPI(<<"process experienced some errors">>)
IsLineError(e) == e.type = "Error" /\ e.kind = "API" /\ e # RunFailed

StoreLogs(s) == IF s.logs.kind = "Some" THEN s.logs.val ELSE <<>>

\* C1: a log-stream child that writes N lines to stdout, nothing to stderr
\* and exits with status 0: once the run is over and the store has
\* consumed every event, the store's log buffer holds exactly those N
\* lines in order, and no Error event was emitted or recorded.
C1_AllLinesStored ==
    (/\ task = "logs"
     /\ w_pc = "reported"
     /\ store_pos = Len(events)
     /\ written.err = <<>>
     /\ child.state = "exited"
     /\ Success(child.status))
    => /\ StoreLogs(store) = SplitLines(written.out)
       /\ \A i \in 1..Len(events) : ~IsError(events[i])
       /\ store.error = None

\* C2: the strings the stdout reader sends on its line channel are the
\* lines the child wrote, in order, each once: at every moment the lines
\* sent followed by the bytes still in the pipe are the bytes written, each
\* string sent is one line, and when the reader ends the lines sent are
\* exactly the lines of what was written.
C2_LinesDeliveredOnce ==
    /\ Flatten(sent_stdout) \o stdout_pipe.buf = written.out
    /\ IsPrefix(sent_stdout, SplitLines(Flatten(sent_stdout)))
    /\ stdout_thread = "done" => sent_stdout = SplitLines(written.out)

\* Byte by byte, the child wrote a full line and an unterminated one, and
\* the reader has delivered both and ended.
C2_Witness ==
    /\ stdout_thread = "done"
    /\ Len(sent_stdout) = 2
    /\ Len(written.out) = MaxBytes
    /\ sent_stdout[2][Len(sent_stdout[2])] # "\n"

LiveChildren(id) ==
    {i \in 1..Len(procs[id]) : procs[id][i].state = "running"}

\* C3: for every task identity there is at most one live child process,
\* also after AwsAPI::get_logs or AwsAPI::login was called twice.
C3_OneLiveChildPerId ==
    \A id \in TaskIds : Cardinality(LiveChildren(id)) <= 1

\* C4: in one run of wait_for_output_with_timeout the VPN warning is
\* emitted at most once.
C4_WarnAtMostOnce ==
    Cardinality({i \in 1..Len(events) : events[i] = ErrorVPN}) <= 1

\* The run polled a running child from the warning up to the ceiling.
C4_Witness ==
    /\ result = Err(<<"timeout">>)
    /\ Len(warn_at) = 1
    /\ warn_at[1] < elapsed

\* C5: the VPN warning is never emitted before the grace period of 1 s has
\* elapsed, and a run that returns Err("timeout") has emitted it.
C5_WarnAfterGraceBeforeTimeout ==
    /\ \A i \in 1..Len(warn_at) : warn_at[i] >= GraceSecs * TicksPerSec
    /\ result = Err(<<"timeout">>) =>
          \E i \in 1..Len(events) : events[i] = ErrorVPN

\* The warning came at the first poll that could send it and the run then
\* timed out.
C5_Witness ==
    /\ result = Err(<<"timeout">>)
    /\ warn_at = <<(GraceSecs + 1) * TicksPerSec>>
    /\ events = <<ErrorVPN>>

\* C6: after wait_for_output_with_timeout has returned Err("timeout") the
\* child is no longer running.
C6_KilledOnTimeout ==
    result = Err(<<"timeout">>) => mon_child.state # "running"

\* C7: when the child exited before the ceiling, the result is Ok(stdout)
\* if and only if the exit status is zero, and for exit status n # 0 it is
\* Err("Exit code n").
C7_ExitClassification ==
    (mon_pc = "returned" /\ result # Err(<<"timeout">>))
    => /\ mon_child.state = "exited"
       /\ result.kind = "Ok" <=> mon_child.status = [normal |-> TRUE,
                                                     code |-> 0]
       /\ result.kind = "Ok" => result.val = mon_child.stdout
       /\ result.kind # "Ok" =>
             result = Err(<<"Exit code ", ToString(mon_child.status.code)>>)
       /\ mon_child.status.code = 1 => result = Err(<<"Exit code ", "1">>)

\* A child that exited with status 2 after the run had started polling.
C7_Witness ==
    /\ mon_pc = "returned"
    /\ mon_child.status = [normal |-> TRUE, code |-> 2]
    /\ result = Err(<<"Exit code ", "2">>)
    /\ elapsed > 0

\* What the claim expects for one stdout line of a login.
C8_Expected(line) ==
    <<AddLoginLog(line)>>
    \o (IF ReCode(line) # None
        THEN <<DisplayLoginCode(ReCode(line).val)>> ELSE <<>>)
    \o (IF Contains(line, Successfully) THEN <<IsLoggedIn>> ELSE <<>>)

C8_ExpectedAll(lines) ==
    Flatten([i \in 1..Len(lines) |-> C8_Expected(lines[i])])

C9_ErrorPerStderrLine ==
    w_pc \in {"done", "reported"} =>
        SelectSeq(events, IsLineError)
            = [i \in 1..Len(SplitLines(written.err)) |->
                  ErrorAPI(SplitLines(written.err)[i])]

\* C10: once the worker of a log-stream whose child exited non-zero has
\* ended, an Error event was emitted and the registry holds no entry for
\* the identity, so that the next call starts a fresh run.
C10_ErrorAndEntryReleased ==
    (/\ threads["GetLogs"].finished
     /\ ~Success(procs["GetLogs"][threads["GetLogs"].child].status))
    => /\ \E i \in 1..Len(events) : IsError(events[i])
       /\ ~threads["GetLogs"].present

\* The entries of a "logs" entry; none when the entry is absent.
Buffer(data) == IF data.kind = "Some" THEN data.val ELSE <<>>

\* C11: a truncate call on a buffer of len entries with ceiling c leaves
\* the c newest entries in their order when len > c, and the buffer as it
\* was when len <= c.
C11_TruncateKeepsNewest ==
    Len(trunc_hist) >= 2 =>
        LET before == Buffer(trunc_hist[1])
            after == Buffer(trunc_hist[2])
            c == truncator.from_to_top
        IN  IF Len(before) > c
            THEN after = SubSeq(before, Len(before) - c + 1, Len(before))
            ELSE after = before

Published ==
    SelectSeq([k \in 1..store_pos |-> k],
              LAMBDA k : events[k].type # "NeedsLogin")

RECURSIVE Fold(_)
Fold(k) == IF k = 0 THEN StoreNew ELSE Reduce(Fold(k - 1), events[k])

\* C14: with a truncator that never truncates, each published state is the
\* fold of the transition function over the events handled up to it.
C14_PublishedIsFold ==
    truncator.kind = "noop" =>
        \A i \in 1..Len(Published) : store_tx[i + 1] = Fold(Published[i])

\* C15: what a published snapshot shows never changes after it was
\* published.
C15_SnapshotsImmutable ==
    \A i \in 1..Len(store_tx) : Observe(store_tx[i]) = store_tx[i]

\* The handling of the k-th intent has returned to recv.
IntentDone(k) == k < disp_pos \/ (k = disp_pos /\ disp_pc = "recv")
\* The events without the Error(VPN) warnings of the runs.
NoWarn(evs) == SelectSeq(evs, LAMBDA ev : ev # ErrorVPN)
HasType(evs, type) == \E i \in 1..Len(evs) : evs[i].type = type
\* The command of the run exited with code 0.
RunOk(o) == o.end = "exit" /\ o.status.normal /\ o.status.code = 0
\* Error(API(message)) followed by RequestLoginStart.
IsApiErrorThenLogin(evs) ==
    /\ Len(evs) = 2
    /\ evs[1].type = "Error" /\ evs[1].kind = "API"
    /\ evs[2] = RequestLoginStart

C19_CommandsUseActiveEnv ==
    \A i \in 1..Len(cmds) :
        /\ cmds[i].active # "none"
        /\ action_tx[cmds[i].by].type # "ChangeEnv"
        => cmds[i].env = cmds[i].active

\* C20: no two quick cluster commands are running at the same time.
C20_OneQuickCommandAtATime ==
    Cardinality({i \in 1..Len(cmds) :
                    /\ cmds[i].state = "running"
                    /\ cmds[i].kind \in {"get_pods", "update_kubeconfig"}})
        <= 1

\* The log-stream children spawned for the k-th intent.
LogStreams(k) ==
    {i \in 1..Len(cmds) : cmds[i].kind = "get_logs" /\ cmds[i].by = k}

\* C21: a log-stream run that has ended is not followed by a new
\* log-stream child without a new GetLogs intent: each GetLogs intent
\* spawns at most one child.
C21_NoAutoRetry ==
    \A k \in 1..disp_pos : Cardinality(LogStreams(k)) <= 1

\* The calls of AwsAPI::login and AwsAPI::get_logs whose command could not
\* be spawned.
FailedSpawns == calls - (Len(procs["GetLogs"]) + Len(procs["GetLoginLogs"]))

\* C22: every login or log-stream command that could not be spawned is
\* reported by an Error event.
C22_SpawnFailureReported ==
    Cardinality({i \in 1..Len(events) : IsError(events[i])}) >= FailedSpawns

\* The positions of the intents of a type on action_tx.
Sent(type) == {i \in 1..Len(action_tx) : action_tx[i].type = type}

\* The store and the app have nothing left to receive.
Quiet == store_pos = Len(events) /\ app_pos = Len(store_tx)

\* C23: when an environment change comes after the log stream was started,
\* GetLogs is sent again after it, by the time the store and the app have
\* handled everything they were sent.
C23_RestartAfterEnvChange ==
    Quiet /\ app_pc = "run" =>
        \A i \in Sent("GetLogs"), j \in Sent("ChangeEnv") :
            i < j => \E l \in Sent("GetLogs") : l > j

SuccessLines ==
    {i \in 1..Len(SplitLines(written.out)) :
        Contains(SplitLines(written.out)[i], Successfully)}

\* C25: once the login worker has ended, for every stdout line with
\* "Successfully" that the child wrote before it closed its streams, the
\* AddLoginLog of the line and an IsLoggedIn after it were emitted.
C25_LoggedInReported ==
    task = "login" /\ w_pc = "done" /\ child.state = "exited" =>
        \A i \in SuccessLines :
            \E j, k \in 1..Len(events) :
                /\ j < k
                /\ events[j] = AddLoginLog(SplitLines(written.out)[i])
                /\ events[k] = IsLoggedIn

\* C26: get_logs returns Err exactly when the child exited non-zero or
\* wrote at least one line to stderr.
C26_ErrorIffFailedOrStderr ==
    task = "logs" /\ w_pc \in {"done", "reported"} =>
        (logs_result.kind = "Err"
            <=> (~Success(child.status) \/ SplitLines(written.err) # <<>>))

\* C28: a run of wait_for_output_with_timeout that lasted longer than the
\* grace period of 1 s has emitted exactly one VPN warning.
C28_WarnedWhenPastGrace ==
    mon_pc = "returned" /\ elapsed > GraceSecs * TicksPerSec =>
        Cardinality({i \in 1..Len(events) : events[i] = ErrorVPN}) = 1

\* C27: at most one log-stream child is alive at any time: a GetLogs
\* intent received while a stream is running starts no second child.
C27_OneLogStream ==
    Cardinality({i \in 1..Len(cmds) :
                    cmds[i].kind = "get_logs" /\ cmds[i].state = "running"})
        <= 1

\* C29: handling AddLog(line) appends exactly that line to the log buffer
\* and keeps the earlier entries: the state published for the event shows
\* the buffer of before followed by the line.
C29_AddLogAppends ==
    [][(store_pos' = store_pos + 1 /\ events[store_pos + 1].type = "AddLog")
          => Buffer(store_tx'[Len(store_tx')].logs)
                = Append(Buffer(store.logs), events[store_pos + 1].text)]_vars

\* C30: logged_in is monotonic: after a snapshot with logged_in was
\* published, every later snapshot and the store itself have logged_in.
C30_LoggedInMonotonic ==
    \A i \in 1..Len(store_tx) :
        store_tx[i].logged_in =>
            /\ store.logged_in
            /\ \A j \in i..Len(store_tx) : store_tx[j].logged_in
\* IsLoggedIn or IsConnected, then RequestLoginStart: the snapshot that asks
\* for the login still has logged_in.
C30_Witness ==
    /\ store_pos = 2
    /\ events[1].type \in {"IsLoggedIn", "IsConnected"}
    /\ events[2] = RequestLoginStart
    /\ Len(store_tx) = 3
    /\ store_tx[2].logged_in
    /\ store_tx[3].request_login /\ store_tx[3].logged_in

\* C31: once every event and every intent has been handled, the
\* environment the last snapshot shows in kube_info is the environment of
\* the last context switch that succeeded: the environment of a ChangeEnv
\* that failed is not shown.
C31_ShownEnvIsActive ==
    (store_pos = Len(events) /\ disp_pos = Len(action_tx) /\ disp_pc = "recv")
        => LET shown == store_tx[Len(store_tx)].kube_info
           IN  shown.kind = "Some" => shown.val = <<active_env>>

\* C32: the handling of a quick intent (CheckConnectivity, ChangeEnv,
\* GetPods) terminates, whether its child exits or not: the dispatcher
\* blocked on the command of a quick intent eventually leaves it.
C32_QuickIntentsTerminate ==
    disp_pc \in {"check_connectivity", "update_kubeconfig", "get_pods"}
        ~> disp_pc \in {"recv", "panicked"}

\* C33: for a child that writes its stdout and exits with status 0 as
\* soon as its writes are complete, wait_for_output_with_timeout returns Ok
\* with all of that output, also when the output is larger than the pipe.
C33_PromptChildReturnsOutput ==
    (mon_pc = "returned" /\ mon_child.prompt)
        => result = Ok(mon_child.stdout)

\* C34: the warning is not fatal: a run that emitted the warning and then
\* saw its child exit with status 0 returns Ok with the child's stdout, and
\* the warning is the only event it sent.
C34_WarningNotFatal ==
    (/\ mon_pc = "returned"
     /\ warn_at # <<>>
     /\ result # Err(<<"timeout">>)
     /\ Success(mon_child.status))
        => /\ result = Ok(mon_child.stdout)
           /\ events = <<ErrorVPN>>
\* The child printed its line and exited with status 0 after the warning.
C34_Witness ==
    /\ mon_pc = "returned"
    /\ Len(warn_at) = 1
    /\ mon_child.state = "exited"
    /\ mon_child.stdout = <<"p", "o", "d", "\n">>
    /\ result = Ok(<<"p", "o", "d", "\n">>)
    /\ events = <<ErrorVPN>>

\* The error the first k events leave on record: the payload of the last
\* Error if no ClearError came after it, and none otherwise.
RECURSIVE CurrentError(_)
CurrentError(k) ==
    IF k = 0 THEN None
    ELSE IF events[k].type = "ClearError" THEN None
    ELSE IF events[k].type = "Error"
    THEN IF events[k].kind = "VPN"
         THEN [kind |-> "Some", val |-> <<"Uhm... VPN on ?">>]
         ELSE [kind |-> "Some", val |-> events[k].text]
    ELSE CurrentError(k - 1)

\* C35: the recorded error is the payload of the most recent Error event
\* received since the last ClearError, and there is none if no Error event
\* arrived since the last ClearError.
C35_OneCurrentError == store.error = CurrentError(store_pos)

\* C36: the supervisor thread is finished only after both the stdout
\* reader and the stderr reader have terminated.
C36_FinishedAfterBothReaders ==
    log_channel_thread = "finished"
        => stdout_thread = "done" /\ stderr_thread = "done"
\* The supervisor woke on the report of one reader, joined both and
\* finished with the report of the other still in err_rx, after the stdout
\* reader had delivered a line.
C36_Witness ==
    /\ log_channel_thread = "finished"
    /\ stdout_thread = "done" /\ stderr_thread = "done"
    /\ err_rx # <<>>
    /\ sent_stdout # <<>>

\* C37: once the child has closed its stdout and stderr, both readers
\* terminate, the supervisor finishes and the worker loop of get_logs or
\* login exits.
C37_WorkerLoopExits ==
    child.state = "exited"
        ~> /\ stdout_thread = "done" /\ stderr_thread = "done"
           /\ log_channel_thread = "finished"
           /\ w_pc \notin {"check", "stderr", "stdout"}
\* The worker has left its loop after a child that wrote on stdout and
\* closed its streams.
C37_Witness ==
    /\ child.state = "exited"
    /\ log_channel_thread = "finished"
    /\ w_pc \notin {"check", "stderr", "stdout"}
    /\ written.out # <<>>

\* C38: while the login prompt is shown and the app reads keys, key '1'
\* yields RequestLoginStop, ClearError, CheckConnectivity in that order
\* and key '2' yields RequestLoginStop then NeedsLogin.
C38_PromptKeys ==
    (app_pc = "run" /\ app_pos > 0 /\ login_prompt(store_tx[app_pos]))
        => /\ handle_user_input(store_tx[app_pos], "1")
                = <<RequestLoginStop, ClearError, CheckConnectivity>>
           /\ handle_user_input(store_tx[app_pos], "2")
                = <<RequestLoginStop, NeedsLogin>>

\* C39: after a truncate call the buffer holds at most ceiling entries,
\* for every buffer length, those beyond i16::MAX included.
C39_AtMostCeiling ==
    Len(trunc_hist) >= 2
        => Len(Buffer(trunc_hist[2])) <= truncator.from_to_top

====
